---- MODULE Spec2Model ----
(***************************************************************************)
(* static-once (src/src/lib.rs): StaticCell<T>, an unchecked write-once    *)
(* cell; the trait StaticInit, which binds a guarded type to its cell      *)
(* (HOLDER) and whose unsafe fn init stores a value and returns the        *)
(* zero-sized proof Inited<T>; and Inited::get, which dereferences the     *)
(* cell of the proof's type without any check.                             *)
(*                                                                         *)
(* Three specifications share the state:                                   *)
(*   SpecCompile  the program text (impl blocks and init call sites) and   *)
(*                what rustc accepts of it;                                *)
(*   Spec         a compiled program, one thread of control, calling the   *)
(*                public operations in any order with any arguments;       *)
(*   SpecHandoff  init on the main thread, the proof handed to a worker    *)
(*                thread, both threads calling Inited::get concurrently,   *)
(*                the cell's write and reads taking two steps each.        *)
(***************************************************************************)
EXTENDS Integers, FiniteSets, TLC

\* ---------------------------------------------------------------- bounds
MaxVal == 2
MaxWrites == 2
MaxImpls == 2
MaxSites == 2

\* ------------------------------------------------------- the program's names
\* Guarded types: A as in the tests, B a composite holding an Inited<A>.
Types == {"A", "B"}

\* The statics behind the guarded types, and the leaked cell `t` of it_works.
Cells == {"__A__", "__B__", "t"}

\* Mutant: the impl for B names A's static as its HOLDER.
HOLDER_Shared(T) == "__A__"

\* const HOLDER: &'static StaticCell<Self::Item>, one per impl StaticInit.
HOLDER(T) == IF T = "A" THEN "__A__" ELSE "__B__"

Threads == {"main", "w1"}

\* A value of an Item type: its data n and, for B, the marker type of the
\* Inited field it holds ("none" for a type without such a field).
Values == [n : 1..MaxVal, inner : {"none", "A", "B"}]

\* MaybeUninit::uninit(): the cell holds no value.
Uninit == [n |-> 0, inner |-> "none"]

\* The Item type of each cell: A and usize are plain data; B { inner: Inited<A> }
\* has the one field, so one value.
ItemsOfCell(c) ==
    IF c = "__B__" THEN {[n |-> 1, inner |-> "A"]}
    ELSE {[n |-> k, inner |-> "none"] : k \in 1..MaxVal}

\* The values of c's Item type the holder of the proofs `held` can construct:
\* a B value embeds an Inited<A>, which only a holder of one can supply.
Constructible(c, held) ==
    {v \in ItemsOfCell(c) : v.inner = "none" \/ v.inner \in held}

Idle == [op |-> "idle", cell |-> "t", val |-> Uninit]

NoOp == [op |-> "none", ret |-> "unit", th |-> "main", ty |-> "none",
         cell |-> "t", val |-> Uninit, ub |-> FALSE]

VARIABLES
    impls,    \* program text: number of `impl StaticInit for T` blocks, per type
    sites,    \* program text: number of `T::init(..)` call sites, per type
    phase,    \* "source", "compiled" or "rejected"
    value,    \* the contents of each StaticCell
    writes,   \* how many times each cell has been written (set calls)
    inits,    \* how many times init has run, per type
    first,    \* the value the first init of each type stored
    proofs,   \* the Inited<T> values each thread holds, by their type T
    pc,       \* what each thread is in the middle of
    got,      \* the addresses Inited::get has returned, per type
    last      \* the last completed operation and what it returned

vars == <<impls, sites, phase, value, writes, inits, first, proofs, pc, got, last>>

text == <<impls, sites, phase>>
cells == <<value, writes, inits, first>>

\* ------------------------------------------------------------ StaticCell
\* StaticCell::new: UnsafeCell::new(MaybeUninit::uninit()).
StaticCell_new == Uninit

\* The memory the operations act on: every cell's contents and write count.
Mem == [value |-> value, writes |-> writes]

\* Mutant: set on an occupied cell takes the old value out and leaves the
\* cell empty.
StaticCell_set_Vacate(mem, c, v) ==
    [value |-> [mem.value EXCEPT ![c] = IF @ = Uninit THEN v ELSE Uninit],
     writes |-> [mem.writes EXCEPT ![c] = @ + 1]]

\* StaticCell::set: (*self.value.get()).write(value), no check of any kind:
\* one write of the cell, whatever it held.
StaticCell_set(mem, c, v) ==
    [value |-> [mem.value EXCEPT ![c] = v],
     writes |-> [mem.writes EXCEPT ![c] = @ + 1]]

\* StaticCell::get: assume_init_ref. The address is the cell's; the pointee is
\* the stored value, or any bit pattern of the type when nothing was stored.
StaticCell_get(mem, c) ==
    IF mem.value[c] # Uninit
    THEN {[cell |-> c, val |-> mem.value[c], ub |-> FALSE]}
    ELSE {[cell |-> c, val |-> x, ub |-> TRUE] : x \in ItemsOfCell(c)}

\* Mutant: get dereferences a cell that is not the type's HOLDER.
Inited_get_Unbound(mem, T) == StaticCell_get(mem, "t")

\* Mutant: get dereferences the HOLDER of the other guarded type.
Inited_get_Swapped(mem, T) ==
    StaticCell_get(mem, HOLDER(CHOOSE U \in Types : U # T))

\* Inited::get: unsafe { B::HOLDER.get() }, the cell of the proof's type.
Inited_get(mem, T) == StaticCell_get(mem, HOLDER(T))

\* Mutant: init returns the proof without storing the value.
StaticInit_init_NoSet(mem, T, v) == [mem |-> mem, proof |-> T]

\* Mutant: init stores the value twice.
StaticInit_init_SetTwice(mem, T, v) ==
    [mem |-> StaticCell_set(StaticCell_set(mem, HOLDER(T), v), HOLDER(T), v),
     proof |-> T]

\* Mutant: init stores the value in a cell that is not the type's HOLDER.
StaticInit_init_WrongHolder(mem, T, v) ==
    [mem |-> StaticCell_set(mem, "t", v), proof |-> T]

\* The body of StaticInit::init: Self::HOLDER.set(value), then the proof.
StaticInit_init(mem, T, v) ==
    [mem |-> StaticCell_set(mem, HOLDER(T), v), proof |-> T]

\* ------------------------------------------------------- the program text
\* Mutant: no coherence check, only the trait bound of the call.
Compiles_NoCoherence(im, si) ==
    \A T \in Types : si[T] > 0 => im[T] >= 1

\* What rustc accepts: at most one impl of StaticInit per type (coherence),
\* and an impl for every type whose init is called. init is an ordinary
\* default method: the number of its call sites is not restricted.
Compiles(im, si) ==
    \A T \in Types : im[T] <= 1 /\ (si[T] > 0 => im[T] = 1)

InitSource ==
    /\ impls = [T \in Types |-> 0]
    /\ sites = [T \in Types |-> 0]
    /\ phase = "source"
    /\ value = [c \in Cells |-> StaticCell_new]
    /\ writes = [c \in Cells |-> 0]
    /\ inits = [T \in Types |-> 0]
    /\ first = [T \in Types |-> Uninit]
    /\ proofs = [th \in Threads |-> {}]
    /\ pc = [th \in Threads |-> Idle]
    /\ got = [T \in Types |-> {}]
    /\ last = NoOp

AddImpl(T) ==
    /\ phase = "source"
    /\ impls[T] < MaxImpls
    /\ impls' = [impls EXCEPT ![T] = @ + 1]
    /\ UNCHANGED <<sites, phase, cells, proofs, pc, got, last>>

AddSite(T) ==
    /\ phase = "source"
    /\ sites[T] < MaxSites
    /\ sites' = [sites EXCEPT ![T] = @ + 1]
    /\ UNCHANGED <<impls, phase, cells, proofs, pc, got, last>>

Compile ==
    /\ phase = "source"
    /\ phase' = IF Compiles(impls, sites) THEN "compiled" ELSE "rejected"
    /\ UNCHANGED <<impls, sites, cells, proofs, pc, got, last>>

NextCompile ==
    \/ \E T \in Types : AddImpl(T)
    \/ \E T \in Types : AddSite(T)
    \/ Compile

SpecCompile == InitSource /\ [][NextCompile]_vars

\* ------------------------------------------------- the compiled program
\* A compiled program with an impl and init call sites for every guarded
\* type, before any of its operations has run.
Init ==
    /\ impls = [T \in Types |-> 1]
    /\ sites = [T \in Types |-> MaxSites]
    /\ phase = "compiled"
    /\ value = [c \in Cells |-> StaticCell_new]
    /\ writes = [c \in Cells |-> 0]
    /\ inits = [T \in Types |-> 0]
    /\ first = [T \in Types |-> Uninit]
    /\ proofs = [th \in Threads |-> {}]
    /\ pc = [th \in Threads |-> Idle]
    /\ got = [T \in Types |-> {}]
    /\ last = NoOp

\* unsafe { T::init(v) } at one of T's call sites.
InitCall(T, v) ==
    /\ phase = "compiled"
    /\ sites[T] > 0
    /\ pc["main"] = Idle
    /\ writes[HOLDER(T)] < MaxWrites
    /\ v \in Constructible(HOLDER(T), proofs["main"])
    /\ LET r == StaticInit_init(Mem, T, v) IN
        /\ value' = r.mem.value
        /\ writes' = r.mem.writes
        /\ proofs' = [proofs EXCEPT !["main"] = @ \cup {r.proof}]
        /\ last' = [op |-> "init", ret |-> "proof", th |-> "main", ty |-> T,
                    cell |-> HOLDER(T), val |-> v, ub |-> FALSE]
    /\ inits' = [inits EXCEPT ![T] = @ + 1]
    /\ first' = IF inits[T] = 0 THEN [first EXCEPT ![T] = v] ELSE first
    /\ UNCHANGED <<text, pc, got>>

\* unsafe { c.set(v) } on a cell directly.
SetCall(c, v) ==
    /\ phase = "compiled"
    /\ pc["main"] = Idle
    /\ writes[c] < MaxWrites
    /\ v \in Constructible(c, proofs["main"])
    /\ LET m == StaticCell_set(Mem, c, v) IN
        /\ value' = m.value
        /\ writes' = m.writes
    /\ last' = [op |-> "set", ret |-> "unit", th |-> "main", ty |-> "none",
                cell |-> c, val |-> v, ub |-> FALSE]
    /\ UNCHANGED <<text, inits, first, proofs, pc, got>>

\* unsafe { c.get() } on a cell directly, as it_works does on `t`.
GetCall(c) ==
    /\ phase = "compiled"
    /\ pc["main"] = Idle
    /\ \E r \in StaticCell_get(Mem, c) :
        last' = [op |-> "get", ret |-> "ref", th |-> "main", ty |-> "none",
                 cell |-> r.cell, val |-> r.val, ub |-> r.ub]
    /\ UNCHANGED <<text, cells, proofs, pc, got>>

\* proof.get() on a proof that thread th holds.
InitedGetCall(th, T) ==
    /\ phase = "compiled"
    /\ pc[th] = Idle
    /\ T \in proofs[th]
    /\ \E r \in Inited_get(Mem, T) :
        /\ last' = [op |-> "iget", ret |-> "ref", th |-> th, ty |-> T,
                    cell |-> r.cell, val |-> r.val, ub |-> r.ub]
        /\ got' = [got EXCEPT ![T] = @ \cup {r.cell}]
    /\ UNCHANGED <<text, cells, proofs, pc>>

\* #[derive(Copy, Clone)]: a copy of a held proof, given to another holder.
CloneCall(from, to, T) ==
    /\ phase = "compiled"
    /\ pc[from] = Idle
    /\ from # to
    /\ T \in proofs[from]
    /\ T \notin proofs[to]
    /\ proofs' = [proofs EXCEPT ![to] = @ \cup {T}]
    /\ last' = [op |-> "clone", ret |-> "proof", th |-> to, ty |-> T,
                cell |-> HOLDER(T), val |-> Uninit, ub |-> FALSE]
    /\ UNCHANGED <<text, cells, pc, got>>

\* b_proof.get().inner.get(): the proof held in the B value's field, resolved.
InnerGetCall(th) ==
    /\ phase = "compiled"
    /\ pc[th] = Idle
    /\ "B" \in proofs[th]
    /\ \E b \in Inited_get(Mem, "B") :
        \E r \in Inited_get(Mem, b.val.inner) :
            last' = [op |-> "inner", ret |-> "ref", th |-> th, ty |-> b.val.inner,
                     cell |-> r.cell, val |-> r.val, ub |-> (b.ub \/ r.ub)]
    /\ UNCHANGED <<text, cells, proofs, pc, got>>

Next ==
    \/ \E T \in Types : \E v \in Values : InitCall(T, v)
    \/ \E c \in Cells : \E v \in Values : SetCall(c, v)
    \/ \E c \in Cells : GetCall(c)
    \/ \E th \in Threads : \E T \in Types : InitedGetCall(th, T)
    \/ \E from \in Threads : \E to \in Threads : \E T \in Types : CloneCall(from, to, T)
    \/ \E th \in Threads : InnerGetCall(th)

Spec == Init /\ [][Next]_vars

\* ------------------------------------------- init, handoff, concurrent get
\* The scenario of the concurrency contract: the main thread runs init once
\* per type, hands copies of the proof to the worker, and every thread that
\* holds a proof calls Inited::get. The write of set and the read of get are
\* plain memory accesses, so each takes a step to begin and a step to end and
\* the steps of different threads interleave.

\* init, first half: Self::HOLDER.set(value) begins writing the cell.
InitBegin(T, v) ==
    /\ pc["main"] = Idle
    /\ inits[T] = 0
    /\ v \in Constructible(HOLDER(T), proofs["main"])
    /\ pc' = [pc EXCEPT !["main"] = [op |-> "set", cell |-> HOLDER(T), val |-> v]]
    /\ inits' = [inits EXCEPT ![T] = @ + 1]
    /\ first' = [first EXCEPT ![T] = v]
    /\ UNCHANGED <<text, value, writes, proofs, got, last>>

\* init, second half: the write completes, then Inited { .. } is returned.
InitEnd(T) ==
    /\ pc["main"].op = "set"
    /\ pc["main"].cell = HOLDER(T)
    /\ LET r == StaticInit_init(Mem, T, pc["main"].val) IN
        /\ value' = r.mem.value
        /\ writes' = r.mem.writes
        /\ proofs' = [proofs EXCEPT !["main"] = @ \cup {r.proof}]
    /\ pc' = [pc EXCEPT !["main"] = Idle]
    /\ last' = [op |-> "init", ret |-> "proof", th |-> "main", ty |-> T,
                cell |-> HOLDER(T), val |-> pc["main"].val, ub |-> FALSE]
    /\ UNCHANGED <<text, inits, first, got>>

\* Mutant: _marker is public, so a thread makes an Inited<T> of its own and
\* calls get on it without having been handed a proof.
GetBegin_Forged(th, T) ==
    /\ pc[th] = Idle
    /\ pc' = [pc EXCEPT ![th] = [op |-> "get", cell |-> HOLDER(T), val |-> Uninit]]
    /\ UNCHANGED <<text, cells, proofs, got, last>>

\* Inited::get, first half: the thread starts to access the cell.
GetBegin(th, T) ==
    /\ pc[th] = Idle
    /\ T \in proofs[th]
    /\ pc' = [pc EXCEPT ![th] = [op |-> "get", cell |-> HOLDER(T), val |-> Uninit]]
    /\ UNCHANGED <<text, cells, proofs, got, last>>

\* Inited::get, second half: the reference is returned and read through. A
\* read that overlaps a write of the same cell is a data race: any value.
GetEnd(th, T) ==
    /\ pc[th].op = "get"
    /\ pc[th].cell = HOLDER(T)
    /\ \E r \in Inited_get(Mem, T) :
        \E x \in ItemsOfCell(r.cell) :
            LET race == \E w \in Threads : pc[w].op = "set" /\ pc[w].cell = r.cell IN
            /\ race \/ x = r.val
            /\ last' = [op |-> "iget", ret |-> "ref", th |-> th, ty |-> T,
                        cell |-> r.cell, val |-> x, ub |-> (r.ub \/ race)]
            /\ got' = [got EXCEPT ![T] = @ \cup {r.cell}]
    /\ pc' = [pc EXCEPT ![th] = Idle]
    /\ UNCHANGED <<text, cells, proofs>>

NextHandoff ==
    \/ \E T \in Types : \E v \in Values : InitBegin(T, v)
    \/ \E T \in Types : InitEnd(T)
    \/ \E to \in Threads : \E T \in Types : CloneCall("main", to, T)
    \/ \E th \in Threads : \E T \in Types : GetBegin(th, T)
    \/ \E th \in Threads : \E T \in Types : GetEnd(th, T)

SpecHandoff == Init /\ [][NextHandoff]_vars

\* ================================================================ claims

Written(c) == value[c] # Uninit

Reads == {"get", "iget", "inner"}

\* C1. Whenever an Inited<T> exists (held by a thread, or embedded in a value
\* stored in a cell), T's cell has been written and init has run for T: init
\* stores the value before it returns the proof, and nothing else makes one.
C1_ProofImpliesWritten ==
    /\ \A th \in Threads : \A T \in proofs[th] :
        Written(HOLDER(T)) /\ inits[T] >= 1
    /\ \A c \in Cells : value[c].inner \in Types =>
        Written(HOLDER(value[c].inner)) /\ inits[value[c].inner] >= 1

C1_Witness ==
    /\ "A" \in proofs["w1"]
    /\ "B" \in proofs["main"]
    /\ value["__B__"].inner = "A"

\* C2 as stated. When init has run exactly once for T, storing v, Inited::get
\* on any copy of the proof returns a reference to a value equal to v.
C2_Original ==
    (last.op = "iget" /\ inits[last.ty] = 1) => last.val = first[last.ty]

\* C2 as amended. When init has run exactly once for T, storing v, and T's
\* cell has not been written otherwise (no raw StaticCell::set on it),
\* Inited::get on any copy of the proof returns a reference to an initialised
\* value equal to v.
C2_GetReturnsStored ==
    (last.op = "iget" /\ inits[last.ty] = 1 /\ writes[HOLDER(last.ty)] = 1) =>
        (last.val = first[last.ty] /\ ~last.ub)

C2_Witness ==
    /\ last.op = "iget"
    /\ last.th = "w1"
    /\ last.ty = "A"
    /\ inits["A"] = 1
    /\ writes["__A__"] = 1
    /\ got["A"] # {}
    /\ last.val.n = MaxVal

\* C3 as stated. Once init has stored a value for T, no later step writes
\* T's cell again.
C3_Original ==
    [][\A T \in Types :
        inits[T] >= 1 => writes'[HOLDER(T)] = writes[HOLDER(T)]]_vars

\* C3 as amended. Every call of init writes T's cell exactly once, and a cell
\* is written only by init for its type or by a raw StaticCell::set, one write
\* per call; get and clone never write. (A second init, or a raw set, does
\* write an initialised cell again.)
C3_OneWritePerCall ==
    [][/\ \A T \in Types : inits'[T] # inits[T] =>
            /\ inits'[T] = inits[T] + 1
            /\ writes'[HOLDER(T)] = writes[HOLDER(T)] + 1
       /\ \A c \in Cells : writes'[c] # writes[c] =>
            /\ writes'[c] = writes[c] + 1
            /\ last'.op \in {"init", "set"}
            /\ last'.cell = c
       /\ \A c \in Cells : value'[c] # value[c] => writes'[c] # writes[c]]_vars

C3_Witness ==
    /\ inits["A"] = 2
    /\ writes["__A__"] = 2
    /\ value["__A__"] # first["A"]

\* C5. init runs to completion on the main thread before the proof reaches
\* any other thread; then no Inited::get overlaps the write of the cell it
\* reads, and every get returns the value init stored.
C5_NoOverlap ==
    /\ \A r \in Threads : \A w \in Threads :
        ~(pc[r].op = "get" /\ pc[w].op = "set" /\ pc[r].cell = pc[w].cell)
    /\ last.op = "iget" => (~last.ub /\ last.val = first[last.ty])

C5_Witness ==
    /\ pc["w1"].op = "get"
    /\ pc["w1"].cell = "__A__"
    /\ pc["main"].op = "set"
    /\ pc["main"].cell = "__B__"
    /\ last.op = "iget"
    /\ last.th = "w1"
    /\ last.val.n = MaxVal

\* C6. No cell is read before it is written: every get, direct or through a
\* proof, finds its cell initialised.
C6_NoReadBeforeWrite ==
    last.op \in Reads => ~last.ub

\* C7. A cell starts Uninitialized, init makes its type's cell Initialized,
\* and a cell that is Initialized stays so under every init, set and get; no
\* operation returns an error.
C7_Monotone ==
    [][/\ \A c \in Cells : writes[c] = 0 => ~Written(c)
       /\ \A c \in Cells : Written(c) => Written(c)'
       /\ \A T \in Types : inits'[T] # inits[T] => Written(HOLDER(T))'
       /\ last'.ret \in {"unit", "ref", "proof"}]_vars

C7_Witness ==
    /\ inits["A"] = 1
    /\ writes["__A__"] = 2
    /\ Written("__A__")
    /\ last.op = "get"
    /\ last.cell = "__A__"

\* C8. Inited::get on a proof of T returns the address of T's HOLDER, for the
\* proof and for every clone, on every call: one address per type.
C8_OneAddress ==
    /\ \A T \in Types : got[T] \subseteq {IF T = "A" THEN "__A__" ELSE "__B__"}
    /\ last.op = "iget" => got[last.ty] = {last.cell}

C8_Witness ==
    /\ last.op = "iget"
    /\ last.th = "w1"
    /\ last.ty = "B"
    /\ got["A"] # {}
    /\ got["B"] # {}

\* C9. With A initialised first and a clone of its proof stored in the B
\* value that B is initialised with, b_proof.get().inner.get() is the address
\* of A's cell and the value in it, as get on A's own proof gives.
C9_InnerResolves ==
    last.op = "inner" =>
        /\ last.cell = "__A__"
        /\ last.ty = "A"
        /\ ~last.ub
        /\ last.val = value["__A__"]
        /\ [cell |-> last.cell, val |-> last.val, ub |-> last.ub]
               \in Inited_get(Mem, "A")

C9_Witness ==
    /\ last.op = "inner"
    /\ last.th = "w1"
    /\ inits["A"] = 1
    /\ inits["B"] = 1
    /\ last.val = first["A"]

====
